---- MODULE Spec2Model ----
(***************************************************************************)
(* A model of ssml.py: the entity codec (unescapeXMLChars, escapeXMLChars), *)
(* the recursive-descent Parser inside parseSSML, and the serializer        *)
(* ssmlNodeToText.                                                          *)
(*                                                                          *)
(* A string is a sequence of one-character strings.  The cursor `pos` is    *)
(* the 0-based offset of the source, so that text[pos] of the source is     *)
(* text[pos + 1] here.  The recursion of parse_element / parse_children is  *)
(* an explicit stack of the open elements' activation records.              *)
(***************************************************************************)
EXTENDS Integers, Sequences, FiniteSets, TLC

VARIABLES
    text,          \* Parser.text: the string being parsed
    pos,           \* Parser.pos: the cursor
    pc,            \* the parser's position in its code
    stack,         \* the open elements: parse_children activations, innermost last
    tag_name,      \* parse_element's local tag_name (the element being opened)
    attributes,    \* parse_element's / parse_attributes' local dictionary
    attr_name,     \* parse_attributes' local attr_name
    closing_tag,   \* parse_children's local closing_tag
    node,          \* parse's local node (the root element once parsed)
    result,        \* what parseSSML returned
    error,         \* the ValueError parseSSML raised
    phase,         \* which call of parseSSML is running
    first,         \* the tree the first call returned
    selfClosedAt   \* where the first call last consumed a "/>", and for which tag

vars == <<text, pos, pc, stack, tag_name, attributes, attr_name, closing_tag,
          node, result, error, phase, first, selfClosedAt>>

----------------------------------------------------------------------------
(* Bounds of the input space. *)

MaxParts == 3

(* The strings the inputs are built from. *)
Heads ==
    { <<"<","s","p","e","a","k",">">>,
      <<"<","s","p","e","a","k">>,
      <<" ","<","s","p","e","a","k",">">>,
      <<"<","b",">">>,
      <<"<","S","p","e","a","k",">">>,
      <<"<","s","p","e","a","k",">","<","b",">">>,
      <<"<","s","p","e","a","k"," ","a","=">>,
      <<>> }

Parts ==
    { <<">">>,
      <<"/",">">>,
      <<" ">>,
      <<"a">>,
      <<"=">>,
      <<"\"">>,
      <<"&","l","t",";">>,
      <<"&","a","m","p",";">>,
      <<"<","b",">">>,
      <<"<","b","/",">">>,
      <<"<","/","b",">">>,
      <<"<","/","s","p","e","a","k",">">>,
      <<"<","/","S","p","e","a","k",">">>,
      <<" ","a","=","\"","<","\"">>,
      <<"<","/">> }

RECURSIVE Flatten(_)
Flatten(ss) == IF ss = <<>> THEN <<>> ELSE Head(ss) \o Flatten(Tail(ss))

Inputs ==
    { h \o Flatten(ps) :
        h \in Heads, ps \in UNION { [1..n -> Parts] : n \in 0..MaxParts } }

----------------------------------------------------------------------------
(* The node model. *)

SSMLText(t) == [type |-> "text", text |-> t]

SSMLTag(name, attrs, children) ==
    [type |-> "tag", name |-> name, attributes |-> attrs, children |-> children]

(* attrs[attr_name] = attr_value on a dictionary that keeps insertion order: *)
(* a new key is appended, an existing key keeps its place and takes the new  *)
(* value.  A dictionary is a sequence of <<key, value>> pairs.               *)
SetAttr(attrs, key, value) ==
    IF \E i \in 1..Len(attrs) : attrs[i][1] = key
    THEN [i \in 1..Len(attrs) |->
            IF attrs[i][1] = key THEN <<key, value>> ELSE attrs[i]]
    ELSE Append(attrs, <<key, value>>)

----------------------------------------------------------------------------
(* The entity codec. *)

(* str.replace(old, new): every non-overlapping occurrence, left to right. *)
RECURSIVE Replace(_, _, _)
Replace(s, old, new) ==
    IF Len(s) < Len(old) THEN s
    ELSE IF SubSeq(s, 1, Len(old)) = old
         THEN new \o Replace(SubSeq(s, Len(old) + 1, Len(s)), old, new)
         ELSE <<Head(s)>> \o Replace(Tail(s), old, new)

EntLt == <<"&","l","t",";">>
EntGt == <<"&","g","t",";">>
EntAmp == <<"&","a","m","p",";">>

unescapeXMLChars(s) ==
    Replace(Replace(Replace(s, EntLt, <<"<">>), EntGt, <<">">>), EntAmp, <<"&">>)

escapeXMLChars(s) ==
    Replace(Replace(Replace(s, <<"<">>, EntLt), <<">">>, EntGt), <<"&">>, EntAmp)

----------------------------------------------------------------------------
(* The parser's helpers. *)

CurrentChar(t, p) == IF p < Len(t) THEN t[p + 1] ELSE ""

StartsWith(t, p, s) ==
    SubSeq(t, p + 1, IF p + Len(s) < Len(t) THEN p + Len(s) ELSE Len(t)) = s

IsSpace(c) == c = " "

RECURSIVE SkipWhitespace(_, _)
SkipWhitespace(t, p) ==
    IF p < Len(t) /\ IsSpace(t[p + 1]) THEN SkipWhitespace(t, p + 1) ELSE p

(* The cursor after parse_tag_name's loop. *)
RECURSIVE TagNameEnd(_, _)
TagNameEnd(t, p) ==
    IF p < Len(t) /\ ~IsSpace(t[p + 1]) /\ t[p + 1] \notin {"/", ">"}
    THEN TagNameEnd(t, p + 1) ELSE p

(* A parse_tag_name that lets a zero-length name through. *)
TagNameNeverMissing(start, end) == FALSE

(* parse_tag_name's test for a zero-length name. *)
TagNameMissing(start, end) == start = end

(* The cursor after parse_attr_name's loop. *)
RECURSIVE AttrNameEnd(_, _)
AttrNameEnd(t, p) ==
    IF p < Len(t) /\ ~IsSpace(t[p + 1]) /\ t[p + 1] \notin {"=", "/", ">"}
    THEN AttrNameEnd(t, p + 1) ELSE p

(* The cursor after parse_attr_value's loop. *)
RECURSIVE AttrValueEnd(_, _)
AttrValueEnd(t, p) ==
    IF p < Len(t) /\ CurrentChar(t, p) # "\"" THEN AttrValueEnd(t, p + 1) ELSE p

(* The cursor after parse_text's loop. *)
RECURSIVE TextEnd(_, _)
TextEnd(t, p) ==
    IF p < Len(t) /\ CurrentChar(t, p) # "<" THEN TextEnd(t, p + 1) ELSE p

RECURSIVE StripLeft(_)
StripLeft(s) == IF s # <<>> /\ IsSpace(Head(s)) THEN StripLeft(Tail(s)) ELSE s

RECURSIVE StripRight(_)
StripRight(s) ==
    IF s # <<>> /\ IsSpace(s[Len(s)]) THEN StripRight(SubSeq(s, 1, Len(s) - 1)) ELSE s

(* A parse_text that strips the run's surrounding whitespace. *)
TextContentStripped(t, start, end) ==
    unescapeXMLChars(StripRight(StripLeft(SubSeq(t, start + 1, end))))

(* The content of parse_text's node: the raw run text[start:end], decoded. *)
TextContent(t, start, end) == unescapeXMLChars(SubSeq(t, start + 1, end))

(* A parse_children loop without its test for the end of the input. *)
ChildKindNoEof(t, p) ==
    IF StartsWith(t, p, <<"<", "/">>) THEN "close"
    ELSE IF CurrentChar(t, p) = "<" THEN "element"
    ELSE "text"

(* A parse_children loop that sends every "<" but "</" to parse_text. *)
ChildKindNoElement(t, p) ==
    IF p >= Len(t) THEN "eof"
    ELSE IF StartsWith(t, p, <<"<", "/">>) THEN "close"
    ELSE "text"

(* The branch one pass of parse_children's loop takes. *)
ChildKind(t, p) ==
    IF p >= Len(t) THEN "eof"
    ELSE IF StartsWith(t, p, <<"<", "/">>) THEN "close"
    ELSE IF CurrentChar(t, p) = "<" THEN "element"
    ELSE "text"

(* parse_attributes' test for the end of the attribute list. *)
AttrsAtEnd(t, p) == p >= Len(t) \/ CurrentChar(t, p) \in {"/", ">"}

Lower(c) == IF c = "S" THEN "s" ELSE c
LowerAll(s) == [i \in 1..Len(s) |-> Lower(s[i])]

(* A comparison of the closing name that ignores case. *)
ClosesTagIgnoringCase(closing, open) == LowerAll(closing) = LowerAll(open)

(* parse_children's comparison of the closing name with the open tag. *)
ClosesTag(closing, open) == closing = open

Speak == <<"s","p","e","a","k">>

(* A parse that takes any tag as the root. *)
IsAnyTagRoot(n) == n.type = "tag"

(* parse's test of the root element. *)
IsSpeakRoot(n) == n.type = "tag" /\ n.name = Speak

----------------------------------------------------------------------------
(* The serializer. *)

RECURSIVE AttrsToText(_)
AttrsToText(attrs) ==
    IF attrs = <<>> THEN <<>>
    ELSE <<" ">> \o Head(attrs)[1] \o <<"=", "\"">>
         \o escapeXMLChars(Head(attrs)[2]) \o <<"\"">> \o AttrsToText(Tail(attrs))

(* A serializer that writes a tag without children as <name .../>. *)
TagToTextShort(name, attrs, children_str) ==
    IF children_str = <<>>
    THEN <<"<">> \o name \o attrs \o <<"/", ">">>
    ELSE <<"<">> \o name \o attrs \o <<">">> \o children_str
         \o <<"<", "/">> \o name \o <<">">>

TagToText(name, attrs, children_str) ==
    <<"<">> \o name \o attrs \o <<">">> \o children_str
    \o <<"<", "/">> \o name \o <<">">>

RECURSIVE ssmlNodeToText(_)
RECURSIVE ChildrenToText(_)
ssmlNodeToText(n) ==
    IF n.type = "text" THEN escapeXMLChars(n.text)
    ELSE TagToText(n.name, AttrsToText(n.attributes), ChildrenToText(n.children))
ChildrenToText(cs) ==
    IF cs = <<>> THEN <<>> ELSE ssmlNodeToText(Head(cs)) \o ChildrenToText(Tail(cs))

----------------------------------------------------------------------------
(* The ValueErrors.  `offset` is <<p>> when the message reports the position *)
(* p and <<>> when it reports none; `expected` and `found` are the tag       *)
(* names the message reports, <<>> when it reports none.                     *)

NoOffset == <<>>

Err(kind, offset, expected, found) ==
    [kind |-> kind, offset |-> offset, expected |-> expected, found |-> found]

NoError == Err("none", NoOffset, <<>>, <<>>)
NoNode == [type |-> "none"]

Raise(p, e) ==
    /\ pc' = "error"
    /\ pos' = p
    /\ error' = e
    /\ UNCHANGED <<text, stack, tag_name, attributes, attr_name, closing_tag,
                   node, result, phase, first, selfClosedAt>>

Top(s) == s[Len(s)]
Pop(s) == SubSeq(s, 1, Len(s) - 1)

(* parse_element returns n with the cursor at p: to parse (the root) or to *)
(* the parse_children loop that called it.                                  *)
Return(n, p) ==
    /\ pos' = p
    /\ IF stack = <<>>
       THEN /\ node' = n
            /\ pc' = "parse_end"
            /\ UNCHANGED stack
       ELSE /\ stack' = [stack EXCEPT ![Len(stack)].children = Append(@, n)]
            /\ pc' = "children"
            /\ UNCHANGED node

----------------------------------------------------------------------------
Init ==
    /\ text \in Inputs
    /\ pos = 0
    /\ pc = "parse"
    /\ stack = <<>>
    /\ tag_name = <<>>
    /\ attributes = <<>>
    /\ attr_name = <<>>
    /\ closing_tag = <<>>
    /\ node = NoNode
    /\ result = NoNode
    /\ error = NoError
    /\ phase = "parse"
    /\ first = NoNode
    /\ selfClosedAt = <<>>

(* parse, up to its call of parse_element. *)
ParseStart ==
    /\ pc = "parse"
    /\ LET p == SkipWhitespace(text, pos) IN
       IF p >= Len(text) \/ CurrentChar(text, p) # "<"
       THEN Raise(p, Err("must_start_with_tag", NoOffset, <<>>, <<>>))
       ELSE /\ pos' = p
            /\ pc' = "element"
            /\ UNCHANGED <<text, stack, tag_name, attributes, attr_name,
                           closing_tag, node, result, error, phase, first,
                           selfClosedAt>>

(* parse_element, up to its call of parse_tag_name; called by parse and by *)
(* parse_children's loop at a "<" that does not start "</".                 *)
ParseElement ==
    /\ \/ pc = "element"
       \/ pc = "children" /\ ChildKind(text, pos) = "element"
    /\ IF CurrentChar(text, pos) # "<"
       THEN Raise(pos, Err("expected_lt", <<pos>>, <<>>, <<>>))
       ELSE /\ pos' = SkipWhitespace(text, pos + 1)
            /\ pc' = "tag_name"
            /\ UNCHANGED <<text, stack, tag_name, attributes, attr_name,
                           closing_tag, node, result, error, phase, first,
                           selfClosedAt>>

(* parse_tag_name, called by parse_element and by parse_children. *)
ParseTagName ==
    /\ pc \in {"tag_name", "closing_name"}
    /\ LET end == TagNameEnd(text, pos) IN
       IF TagNameMissing(pos, end)
       THEN Raise(end, Err("expected_tag_name", <<end>>, <<>>, <<>>))
       ELSE /\ pos' = end
            /\ IF pc = "tag_name"
               THEN /\ tag_name' = SubSeq(text, pos + 1, end)
                    /\ attributes' = <<>>
                    /\ pc' = "attributes"
                    /\ UNCHANGED closing_tag
               ELSE /\ closing_tag' = SubSeq(text, pos + 1, end)
                    /\ pc' = "closing_end"
                    /\ UNCHANGED <<tag_name, attributes>>
            /\ UNCHANGED <<text, stack, attr_name, node, result, error, phase,
                           first, selfClosedAt>>

(* parse_attributes: the pass of its loop that breaks. *)
AttrsBreak ==
    /\ pc = "attributes"
    /\ LET p == SkipWhitespace(text, pos) IN
       /\ AttrsAtEnd(text, p)
       /\ pos' = p
       /\ pc' = "element_end"
       /\ UNCHANGED <<text, stack, tag_name, attributes, attr_name, closing_tag,
                      node, result, error, phase, first, selfClosedAt>>

(* parse_attributes: a pass that goes on to parse_attr_name. *)
ParseAttrName ==
    /\ pc = "attributes"
    /\ LET p == SkipWhitespace(text, pos)
           end == AttrNameEnd(text, p) IN
       /\ ~AttrsAtEnd(text, p)
       /\ IF p = end
          THEN Raise(end, Err("expected_attr_name", <<end>>, <<>>, <<>>))
          ELSE /\ pos' = end
               /\ attr_name' = SubSeq(text, p + 1, end)
               /\ pc' = "attr_eq"
               /\ UNCHANGED <<text, stack, tag_name, attributes, closing_tag,
                              node, result, error, phase, first, selfClosedAt>>

(* parse_attributes: the "=" after the attribute's name. *)
ExpectEquals ==
    /\ pc = "attr_eq"
    /\ LET p == SkipWhitespace(text, pos) IN
       IF p >= Len(text) \/ CurrentChar(text, p) # "="
       THEN Raise(p, Err("expected_equals", <<p>>, <<>>, <<>>))
       ELSE /\ pos' = SkipWhitespace(text, p + 1)
            /\ pc' = "attr_value"
            /\ UNCHANGED <<text, stack, tag_name, attributes, attr_name,
                           closing_tag, node, result, error, phase, first,
                           selfClosedAt>>

(* parse_attr_value, and the store of the attribute. *)
ParseAttrValue ==
    /\ pc = "attr_value"
    /\ IF pos >= Len(text)
       THEN Raise(pos, Err("expected_attr_value", <<pos>>, <<>>, <<>>))
       ELSE IF CurrentChar(text, pos) # "\""
       THEN Raise(pos, Err("expected_double_quote", <<pos>>, <<>>, <<>>))
       ELSE LET start == pos + 1
                end == AttrValueEnd(text, start) IN
            IF end >= Len(text)
            THEN Raise(end, Err("value_not_closed", <<start>>, <<>>, <<>>))
            ELSE /\ pos' = end + 1
                 /\ attributes' =
                        SetAttr(attributes, attr_name,
                                unescapeXMLChars(SubSeq(text, start + 1, end)))
                 /\ pc' = "attributes"
                 /\ UNCHANGED <<text, stack, tag_name, attr_name, closing_tag,
                                node, result, error, phase, first, selfClosedAt>>

(* parse_element: the "/>" that ends a self-closing tag. *)
SelfClose ==
    /\ pc = "element_end"
    /\ LET p == SkipWhitespace(text, pos) IN
       /\ StartsWith(text, p, <<"/", ">">>)
       /\ Return(SSMLTag(tag_name, attributes, <<>>), p + 2)
       /\ selfClosedAt' = IF phase = "parse" THEN <<p, tag_name>> ELSE selfClosedAt
       /\ UNCHANGED <<text, tag_name, attributes, attr_name, closing_tag, result,
                      error, phase, first>>

(* parse_element: the ">" that ends an opening tag; parse_children starts. *)
OpenTag ==
    /\ pc = "element_end"
    /\ LET p == SkipWhitespace(text, pos) IN
       /\ ~StartsWith(text, p, <<"/", ">">>)
       /\ CurrentChar(text, p) = ">"
       /\ pos' = p + 1
       /\ stack' = Append(stack, [tag_name |-> tag_name,
                                  attributes |-> attributes,
                                  children |-> <<>>])
       /\ pc' = "children"
       /\ UNCHANGED <<text, tag_name, attributes, attr_name, closing_tag, node,
                      result, error, phase, first, selfClosedAt>>

(* parse_element: neither "/>" nor ">". *)
MalformedTag ==
    /\ pc = "element_end"
    /\ LET p == SkipWhitespace(text, pos) IN
       /\ ~StartsWith(text, p, <<"/", ">">>)
       /\ CurrentChar(text, p) # ">"
       /\ Raise(p, Err("malformed_tag", <<p>>, <<>>, <<>>))

(* parse_children: the end of the input with the tag still open. *)
MissingClosingTag ==
    /\ pc = "children"
    /\ ChildKind(text, pos) = "eof"
    /\ Raise(pos, Err("missing_closing_tag", NoOffset, Top(stack).tag_name, <<>>))

(* parse_children: "</", up to the call of parse_tag_name. *)
CloseTagStart ==
    /\ pc = "children"
    /\ ChildKind(text, pos) = "close"
    /\ pos' = SkipWhitespace(text, pos + 2)
    /\ pc' = "closing_name"
    /\ UNCHANGED <<text, stack, tag_name, attributes, attr_name, closing_tag,
                   node, result, error, phase, first, selfClosedAt>>

(* parse_children: after the closing tag's name; the element is complete. *)
CloseTagEnd ==
    /\ pc = "closing_end"
    /\ LET p == SkipWhitespace(text, pos)
           open == Top(stack) IN
       IF p >= Len(text) \/ CurrentChar(text, p) # ">"
       THEN Raise(p, Err("expected_gt_closing", <<p>>, <<>>, <<>>))
       ELSE IF ~ClosesTag(closing_tag, open.tag_name)
       THEN Raise(p + 1, Err("mismatched_closing_tag", NoOffset,
                             open.tag_name, closing_tag))
       ELSE /\ pos' = p + 1
            /\ LET n == SSMLTag(open.tag_name, open.attributes, open.children)
                   rest == Pop(stack) IN
               IF rest = <<>>
               THEN /\ node' = n
                    /\ pc' = "parse_end"
                    /\ stack' = rest
               ELSE /\ stack' = [rest EXCEPT ![Len(rest)].children = Append(@, n)]
                    /\ pc' = "children"
                    /\ UNCHANGED node
            /\ UNCHANGED <<text, tag_name, attributes, attr_name, closing_tag,
                           result, error, phase, first, selfClosedAt>>

(* parse_children: a run of text, through parse_text. *)
ParseText ==
    /\ pc = "children"
    /\ ChildKind(text, pos) = "text"
    /\ LET end == TextEnd(text, pos) IN
       /\ pos' = end
       /\ stack' = [stack EXCEPT ![Len(stack)].children =
                        Append(@, SSMLText(TextContent(text, pos, end)))]
       /\ UNCHANGED <<text, pc, tag_name, attributes, attr_name, closing_tag,
                      node, result, error, phase, first, selfClosedAt>>

(* parse, after parse_element has returned the root. *)
ParseEnd ==
    /\ pc = "parse_end"
    /\ LET p == SkipWhitespace(text, pos) IN
       IF p # Len(text)
       THEN Raise(p, Err("extra_content", NoOffset, <<>>, <<>>))
       ELSE IF ~IsSpeakRoot(node)
       THEN Raise(p, Err("root_not_speak", NoOffset, <<>>, <<>>))
       ELSE /\ pos' = p
            /\ result' = node
            /\ pc' = "done"
            /\ UNCHANGED <<text, stack, tag_name, attributes, attr_name,
                           closing_tag, node, error, phase, first, selfClosedAt>>

(* A new Parser on the string s, for the second call of parseSSML. *)
Restart(s, ph) ==
    /\ text' = s
    /\ pos' = 0
    /\ pc' = "parse"
    /\ stack' = <<>>
    /\ tag_name' = <<>>
    /\ attributes' = <<>>
    /\ attr_name' = <<>>
    /\ closing_tag' = <<>>
    /\ node' = NoNode
    /\ result' = NoNode
    /\ error' = NoError
    /\ phase' = ph
    /\ first' = result
    /\ UNCHANGED selfClosedAt

(* parseSSML(ssmlNodeToText(tree)) on the tree the first call returned. *)
Reserialize ==
    /\ phase = "parse"
    /\ pc = "done"
    /\ Restart(ssmlNodeToText(result), "reparse")

(* The input with one self-closing tag <n .../> written <n ...></n>. *)
Expanded(t, at) ==
    SubSeq(t, 1, at[1]) \o <<">", "<", "/">> \o at[2] \o <<">">>
    \o SubSeq(t, at[1] + 3, Len(t))

(* parseSSML on the first input with its last self-closing tag expanded. *)
ParseExpanded ==
    /\ phase = "parse"
    /\ pc = "done"
    /\ selfClosedAt # <<>>
    /\ Restart(Expanded(text, selfClosedAt), "expanded")

Next ==
    \/ ParseStart
    \/ ParseElement
    \/ ParseTagName
    \/ AttrsBreak
    \/ ParseAttrName
    \/ ExpectEquals
    \/ ParseAttrValue
    \/ SelfClose
    \/ OpenTag
    \/ MalformedTag
    \/ MissingClosingTag
    \/ CloseTagStart
    \/ CloseTagEnd
    \/ ParseText
    \/ ParseEnd
    \/ Reserialize
    \/ ParseExpanded

Spec == Init /\ [][Next]_vars

----------------------------------------------------------------------------
(* What the properties below read off a state. *)

Finished == pc \in {"done", "error"}

Last(s) == s[Len(s)]

(* The text contents and attribute values of a tree. *)
RECURSIVE StringsOf(_)
StringsOf(n) ==
    IF n.type = "text" THEN {n.text}
    ELSE { n.attributes[i][2] : i \in 1..Len(n.attributes) }
         \cup UNION { StringsOf(n.children[i]) : i \in 1..Len(n.children) }

(* The text contents of a tree. *)
RECURSIVE TextsOf(_)
TextsOf(n) ==
    IF n.type = "text" THEN {n.text}
    ELSE UNION { TextsOf(n.children[i]) : i \in 1..Len(n.children) }

Occurs(sub, s) ==
    \E i \in 1..Len(s) : i + Len(sub) - 1 <= Len(s) /\ SubSeq(s, i, i + Len(sub) - 1) = sub

HasEntity(s) == Occurs(EntLt, s) \/ Occurs(EntGt, s) \/ Occurs(EntAmp, s)

(* The children parsed so far of the innermost open element. *)
OpenChildren == Top(stack).children

(* The cursor is in parse_children's loop, between two tag delimiters: at a *)
(* "<", right after the ">" of the opening tag or of the previous child.    *)
BetweenDelimiters ==
    /\ pc = "children"
    /\ CurrentChar(text, pos) = "<"
    /\ (OpenChildren = <<>> \/ Last(OpenChildren).type = "tag")

----------------------------------------------------------------------------
(* C1: tree-level round trip.  Whenever parseSSML accepts an input, it also *)
(* accepts the serialization of the tree it returned, and returns a tree    *)
(* equal to the first one.                                                  *)
C1_TreeRoundTrip ==
    (phase = "reparse" /\ Finished) => (pc = "done" /\ result = first)

(* C2: entity codec round trip.  For every string s the serializer escapes  *)
(* (a text content or an attribute value of a parsed tree) that holds no    *)
(* entity sequence, unescapeXMLChars(escapeXMLChars(s)) = s.                *)
C2_CodecRoundTrip ==
    (phase = "parse" /\ pc = "done") =>
        \A s \in StringsOf(result) :
            ~HasEntity(s) => unescapeXMLChars(escapeXMLChars(s)) = s

(* C3: root validation.  parseSSML returns a tree only when the input is    *)
(* optional whitespace, then one element whose name is exactly "speak",     *)
(* then optional whitespace; the tree is a tag named "speak"; and while it  *)
(* has not returned, or once it has raised, there is no tree.               *)
C3_RootIsSpeak ==
    /\ pc # "done" => result = NoNode
    /\ pc = "done" =>
        LET lt == SkipWhitespace(text, 0)
            start == SkipWhitespace(text, lt + 1) IN
        /\ result.type = "tag"
        /\ result.name = Speak
        /\ CurrentChar(text, lt) = "<"
        /\ SubSeq(text, start + 1, TagNameEnd(text, start)) = Speak
        /\ pos = Len(text)

(* A root element named "Speak" has been parsed and rejected. *)
C3_Witness ==
    /\ phase = "parse"
    /\ pc = "error"
    /\ error.kind = "root_not_speak"
    /\ node.type = "tag"
    /\ node.name = <<"S","p","e","a","k">>

(* C4: closing-tag validation.  At the ">" of a closing tag </name>, met    *)
(* while tag T is open: if name = T exactly, T is completed; otherwise the  *)
(* parse aborts with an error that names T as expected and name as found.   *)
(* An open element is completed in no other way.                            *)
C4_ClosingTagMatches ==
    [][ /\ (pc = "closing_end" /\ CurrentChar(text, SkipWhitespace(text, pos)) = ">") =>
            IF closing_tag = Top(stack).tag_name
            THEN pc' # "error" /\ Len(stack') = Len(stack) - 1
            ELSE /\ pc' = "error"
                 /\ error'.kind = "mismatched_closing_tag"
                 /\ error'.expected = Top(stack).tag_name
                 /\ error'.found = closing_tag
                 /\ stack' = stack
        /\ (phase' = phase /\ Len(stack') < Len(stack)) =>
            /\ pc = "closing_end"
            /\ closing_tag = Top(stack).tag_name
            /\ SubSeq(text, pos - Len(closing_tag) + 1, pos) = Top(stack).tag_name
      ]_vars

(* "<speak><b></speak>": expected b, found speak. *)
C4_Witness ==
    /\ pc = "error"
    /\ error.kind = "mismatched_closing_tag"
    /\ error.expected = <<"b">>
    /\ error.found = Speak

(* C5, as claimed: whenever the parse raises with the cursor at the end of  *)
(* the input while a tag T is open, the error names T.                      *)
C5_EndOfInputNamesOpenTag ==
    (pc = "error" /\ pos = Len(text) /\ stack # <<>>) =>
        error.expected = Top(stack).tag_name

(* C5, amended: when the end of the input is met where parse_children looks *)
(* for the next child or the closing tag of the innermost open tag T, the   *)
(* error is "Missing closing tag" and names T, and that error is raised     *)
(* nowhere else; when the input ends inside a closing tag, after "</" or    *)
(* after its name, the error is "Expected tag name" or "Expected '>'", with *)
(* the offset of the end of the input and no tag name.                      *)
C5_MissingClosingTag ==
    /\ [](error.kind = "missing_closing_tag" =>
            /\ pc = "error"
            /\ pos = Len(text)
            /\ stack # <<>>
            /\ error.expected = Top(stack).tag_name)
    /\ [][ /\ (pc = "children" /\ pos >= Len(text)) =>
                /\ pc' = "error"
                /\ error'.kind = "missing_closing_tag"
                /\ error'.expected = Top(stack).tag_name
           /\ (pc \in {"closing_name", "closing_end"}
               /\ SkipWhitespace(text, pos) >= Len(text)) =>
                /\ pc' = "error"
                /\ error'.kind = IF pc = "closing_name" THEN "expected_tag_name"
                                 ELSE "expected_gt_closing"
                /\ error'.offset = <<Len(text)>>
                /\ error'.expected = <<>>
         ]_vars

(* "<speak><b>" and the like: the input ends with b and speak open. *)
C5_Witness ==
    /\ pc = "error"
    /\ error.kind = "missing_closing_tag"
    /\ error.expected = <<"b">>
    /\ Len(stack) = 2
    /\ pos = Len(text)

(* C6: every error parseSSML raises carries the offset at which the         *)
(* violation was detected.                                                  *)
C6_ErrorsCarryOffset ==
    pc = "error" => error.offset # NoOffset

(* What is left of a call of parseSSML: the characters after the cursor,    *)
(* then the steps that may leave the cursor where it is.                    *)
Remaining ==
    3 * (Len(text) - pos)
    + (IF Finished THEN 0 ELSE IF pc \in {"element", "element_end"} THEN 1 ELSE 2)

(* The parser is at a place of its code, with an open element where the     *)
(* code reads one: the guard of some step holds.                            *)
CanStep ==
    \/ pc \in {"parse", "element", "tag_name", "closing_name", "attributes",
               "attr_eq", "attr_value", "element_end", "parse_end"}
    \/ pc \in {"children", "closing_end"} /\ stack # <<>>

C8_TextPreserved ==
    /\ [](pc = "children" =>
            /\ pos > 0
            /\ \/ text[pos] = ">"
               \/ /\ OpenChildren # <<>>
                  /\ Last(OpenChildren).type = "text"
                  /\ (pos = Len(text) \/ text[pos + 1] = "<"))
    /\ [][(pc = "children" /\ pos < Len(text) /\ text[pos + 1] # "<") =>
            LET end == CHOOSE j \in pos + 1..Len(text) :
                           /\ j = Len(text) \/ text[j + 1] = "<"
                           /\ \A k \in pos + 1..j : text[k] # "<"
            IN /\ pos' = end
               /\ stack' = [stack EXCEPT ![Len(stack)].children =
                    Append(@, SSMLText(unescapeXMLChars(SubSeq(text, pos + 1, end))))]
          ]_vars
    /\ []((pc = "done" /\ text = <<"<","s","p","e","a","k",">"," ","<","/","s","p","e","a","k",">">>)
            => result = SSMLTag(Speak, <<>>, << SSMLText(<<" ">>) >>))

(* "<speak> </speak>" has been parsed: one text child, a single space. *)
C8_Witness ==
    /\ phase = "parse"
    /\ pc = "done"
    /\ result.children = << SSMLText(<<" ">>) >>

(* C9: self-closing form.  "<n .../>" yields a tag without children; the    *)
(* input with that tag written "<n ...></n>" is accepted too and yields     *)
(* the same tree (hence the same serialization); and the serialization of   *)
(* a tree never holds "/>" and ends with the root's explicit closing tag.   *)
C9_SelfClosing ==
    /\ []((phase = "expanded" /\ Finished) => (pc = "done" /\ result = first))
    /\ [](pc = "done" =>
            LET out == ssmlNodeToText(result) IN
            /\ ~Occurs(<<"/", ">">>, out)
            /\ SubSeq(out, Len(out) - 7, Len(out)) = <<"<", "/">> \o Speak \o <<">">>)
    /\ [][(pc = "element_end"
           /\ StartsWith(text, SkipWhitespace(text, pos), <<"/", ">">>)) =>
            LET n == IF stack = <<>> THEN node' ELSE Last(Top(stack').children) IN
            /\ pc' # "error"
            /\ n = SSMLTag(tag_name, attributes, <<>>)
            /\ pos' = SkipWhitespace(text, pos) + 2
          ]_vars

(* A self-closing tag with an attribute, parsed again in its expanded form. *)
C9_Witness ==
    /\ phase = "expanded"
    /\ pc = "done"
    /\ \/ result.attributes # <<>> /\ result.children = <<>>
       \/ \E i \in 1..Len(result.children) :
            /\ result.children[i].type = "tag"
            /\ result.children[i].children = <<>>

(* C10, as claimed: an empty run between two adjacent tag delimiters adds   *)
(* an empty text node to the children of the open element.                  *)
C10_EmptyRunYieldsTextNode ==
    [][BetweenDelimiters =>
         /\ pc' # "error"
         /\ Top(stack').children = Append(OpenChildren, SSMLText(<<>>))]_vars

(* C10, amended: adjacent tag delimiters are accepted, and the empty run    *)
(* between them yields no node: the children of the open element are left   *)
(* as they are, and no text node of any tree has empty content.             *)
C10_EmptyRunYieldsNothing ==
    /\ [](\A i \in 1..Len(stack) : \A j \in 1..Len(stack[i].children) :
            <<>> \notin TextsOf(stack[i].children[j]))
    /\ [](pc = "done" => <<>> \notin TextsOf(result))
    /\ [][BetweenDelimiters => (pc' # "error" /\ stack' = stack)]_vars

(* "<speak><b/><b/></speak>" and the like: two tags, back to back. *)
C10_Witness ==
    /\ phase = "parse"
    /\ pc = "done"
    /\ Len(result.children) = 2
    /\ result.children[1].type = "tag"
    /\ result.children[2].type = "tag"

====
